---- MODULE Spec2Model ----
(***************************************************************************)
(* Model of the brand-guardian audit pipeline:                             *)
(*   backend/src/graph/state.py      VideoAuditState and its reducers      *)
(*   backend/src/graph/workflow.py   the two-node graph indexer -> auditor *)
(*   backend/src/graph/nodes.py      index_video_node, compliance_audit_node*)
(*   backend/src/services/video_indexer.py  VideoIndexerService            *)
(*                                                                         *)
(* Python values are dynamically typed, so every value that is stored in   *)
(* the graph state or carried by a JSON document is a tagged record        *)
(* [t |-> type, v |-> payload].  A Python str is a TLA+ string, a list a   *)
(* sequence, a dict a function from key strings to tagged values.          *)
(*                                                                         *)
(* A text (the generative response) is a sequence of runs [tok, n]: tok is *)
(* a lexical token and n the number of its characters that are present,    *)
(* so that the slice text[:k] is computable on texts longer than k.        *)
(***************************************************************************)
EXTENDS Integers, Sequences, FiniteSets, TLC

\* ------------------------------------------------------------------ bounds
\* Longest generative response, in tokens.
MaxRespLen == 3
\* Most status checks one run of wait_for_processing is followed for.
MaxChecks == 3

\* ------------------------------------------------------- tagged values
None == [t |-> "none", v |-> ""]
Str(s) == [t |-> "str", v |-> s]
List(l) == [t |-> "list", v |-> l]
Dict(d) == [t |-> "dict", v |-> d]

\* The dict with no keys.
EmptyDict == [k \in {} |-> None]

\* Python truth value of a tagged value (`not x` is ~Truthy(x)).
Truthy(x) ==
  CASE x.t = "none" -> FALSE
    [] x.t = "str" -> x.v # ""
    [] x.t = "list" -> x.v # <<>>
    [] x.t = "dict" -> DOMAIN x.v # {}
    [] OTHER -> TRUE

\* dict.get(k, default)
Get(d, k, default) == IF k \in DOMAIN d THEN d[k] ELSE default

\* ---------------------------------------------------------------- texts
\* The token of three backquotes that opens or closes a code block.
Fence == "<fence>"
Tag == "json"
Ws == " "
Junk == "junk"
LongJunk == "longjunk"
Body == "<body>"

\* Tokens that are the text of one JSON document.
DocTokens ==
  {"objPass", "objFail", "objEmpty", "objMaybe", "objNull", "objBadList", "arr"}

\* The finding the generative service reports in "objFail".
F1 == Dict([category |-> Str("Legal Disclosure"), severity |-> Str("HIGH"),
            description |-> Str("no paid-partner label")])

\* The JSON value a document token is the text of (what json.loads returns).
JsonOf(tok) ==
  CASE tok = "objPass" ->
         Dict([status |-> Str("PASS"), compliance_results |-> List(<<>>),
               final_report |-> Str("ok")])
    [] tok = "objFail" ->
         Dict([status |-> Str("FAIL"), compliance_results |-> List(<<F1>>),
               final_report |-> Str("violations found")])
    [] tok = "objEmpty" -> Dict(EmptyDict)
    [] tok = "objMaybe" ->
         Dict([status |-> Str("MAYBE"), final_report |-> Str("unsure")])
    [] tok = "objNull" -> Dict([status |-> None, final_report |-> None])
    [] tok = "objBadList" ->
         Dict([status |-> Str("PASS"), compliance_results |-> None])
    [] tok = "arr" -> List(<<>>)

\* Number of characters of a whole token.
TokLen(tok) ==
  CASE tok = Fence -> 3
    [] tok = Tag -> 4
    [] tok = Ws -> 1
    [] tok = Junk -> 20
    [] tok = LongJunk -> 150
    [] OTHER -> 60

\* The text made of whole tokens.
Text(toks) == [i \in 1..Len(toks) |-> [tok |-> toks[i], n |-> TokLen(toks[i])]]

RECURSIVE CharLen(_)
CharLen(text) ==
  IF text = <<>> THEN 0 ELSE Head(text).n + CharLen(Tail(text))

\* Python text[:k]
RECURSIVE Slice(_, _)
Slice(text, k) ==
  IF text = <<>> \/ k <= 0 THEN <<>>
  ELSE IF Head(text).n <= k
       THEN <<Head(text)>> \o Slice(Tail(text), k - Head(text).n)
       ELSE <<[tok |-> Head(text).tok, n |-> k]>>

\* Python str.strip(): drop leading and trailing whitespace.
RECURSIVE LStrip(_)
LStrip(text) ==
  IF text # <<>> /\ Head(text).tok = Ws THEN LStrip(Tail(text)) ELSE text

RECURSIVE RStrip(_)
RStrip(text) ==
  IF text # <<>> /\ text[Len(text)].tok = Ws
  THEN RStrip(SubSeq(text, 1, Len(text) - 1))
  ELSE text

Strip(text) == RStrip(LStrip(text))

\* Positions of the fences of a text.
FencePositions(text) == {i \in 1..Len(text) : text[i].tok = Fence}

\* FenceSearch without the optional tag: the tag stays in the group.
FenceSearch_KeepTag(text) ==
  LET fs == FencePositions(text) IN
  IF Cardinality(fs) < 2 THEN [found |-> FALSE, group |-> <<>>]
  ELSE
    LET open == CHOOSE i \in fs : \A j \in fs : i <= j
        start == CHOOSE p \in (open + 1)..Len(text) :
                   /\ text[p].tok # Ws
                   /\ \A q \in (open + 1)..(p - 1) : text[q].tok = Ws
        close == CHOOSE j \in fs : j >= start /\ \A l \in fs : l >= start => j <= l
    IN [found |-> TRUE, group |-> SubSeq(text, start, close - 1)]

\* re.search(fence (?:json)? \s* (.*?) fence, content, re.DOTALL): the leftmost
\* fence that has a later fence opens the match; an optional tag and then all
\* whitespace after it are consumed; group(1) runs lazily to the next fence.
\* Returns [found, group].
FenceSearch(text) ==
  LET fs == FencePositions(text) IN
  IF Cardinality(fs) < 2 THEN [found |-> FALSE, group |-> <<>>]
  ELSE
    LET open == CHOOSE i \in fs : \A j \in fs : i <= j
        afterTag == IF text[open + 1].tok = Tag THEN open + 2 ELSE open + 1
        start == CHOOSE p \in afterTag..Len(text) :
                   /\ text[p].tok # Ws
                   /\ \A q \in afterTag..(p - 1) : text[q].tok = Ws
        close == CHOOSE j \in fs : j >= start /\ \A l \in fs : l >= start => j <= l
    IN [found |-> TRUE, group |-> SubSeq(text, start, close - 1)]

\* Lines 167-172: the text handed to json.loads.
ExtractContent(content) ==
  LET json_match == FenceSearch(content) IN
  Strip(IF json_match.found THEN json_match.group ELSE content)

\* json.loads(content): [ok, value]; ~ok is json.JSONDecodeError.  A text is a
\* JSON document iff, whitespace around it apart, it is one document token.
Loads(content) ==
  LET core == Strip(content) IN
  IF Len(core) = 1 /\ core[1].tok \in DocTokens /\ core[1].n = TokLen(core[1].tok)
  THEN [ok |-> TRUE, value |-> JsonOf(core[1].tok)]
  ELSE [ok |-> FALSE, value |-> None]

\* A str built by an f-string around a text: its value is the text.
FStr(text) == [t |-> "fstr", v |-> text]

IsStr(x) == x.t \in {"str", "fstr"}

\* ------------------------------------------------------- state.py: reducers
\* Keys annotated with operator.add (lines 33 and 42 of state.py).
AppendKeys == {"compliance_results", "errors"}

\* operator.add(old, new) on a list raises TypeError unless new is a list.
MergeOk(s, u) == \A k \in DOMAIN u \cap AppendKeys : u[k].t = "list"

\* MergedValue with every key overwritten, the reducers ignored.
MergedValue_Overwrite(s, u, k) == IF k \in DOMAIN u THEN u[k] ELSE s[k]

\* MergedValue with the operands of operator.add swapped.
MergedValue_Prepend(s, u, k) ==
  IF k \in DOMAIN u
  THEN IF k \in AppendKeys
       THEN List(u[k].v \o Get(s, k, List(<<>>)).v)
       ELSE u[k]
  ELSE s[k]

\* The value of key k after update u is applied to state s.
MergedValue(s, u, k) ==
  IF k \in DOMAIN u
  THEN IF k \in AppendKeys
       THEN List(Get(s, k, List(<<>>)).v \o u[k].v)
       ELSE u[k]
  ELSE s[k]

\* The graph state after a node's partial update is applied.
Merge(s, u) == [k \in DOMAIN s \cup DOMAIN u |-> MergedValue(s, u, k)]

\* ------------------------------------------------------ workflow.py: graph
EntryPoint == "indexer"
END == "__end__"
\* The driver's position once an exception has left invoke().
RAISED == "__raised__"

\* NextNode with a conditional edge that ends the run when the indexer failed.
NextNode_SkipOnFail(n, s) ==
  IF n = "indexer"
  THEN IF Get(s, "final_status", None) = Str("FAIL") THEN END ELSE "auditor"
  ELSE END

\* add_edge("indexer", "auditor"); add_edge("auditor", END)
NextNode(n, s) == IF n = "indexer" THEN "auditor" ELSE END

\* ----------------------------------------------- what a node call yields
Return(u, evs) == [kind |-> "return", update |-> u, exc |-> "", events |-> evs]
Raise(msg, evs) == [kind |-> "raise", update |-> EmptyDict, exc |-> msg, events |-> evs]

\* ------------------------------------------- nodes.py: compliance_audit_node
NoContentReport ==
  "Audit failed: No speech or text content could be extracted from this video."
ParseErrorMessage == "Failed to parse AI response. Check logs for raw output."
NoReportPlaceholder == "No Report Generated."
\* response.content[:100]
RawPrefixLen == 100

\* ContentEmpty with the second `not` dropped.
ContentEmpty_DroppedNot(s) ==
  /\ ~Truthy(Get(s, "transcript", Str("")))
  /\ Truthy(Get(s, "ocr_text", List(<<>>)))

\* ContentEmpty with the short-circuit of lines 81-86 never taken.
ContentEmpty_Never(s) == FALSE

\* Line 81: not transcript and not ocr_text
ContentEmpty(s) ==
  /\ ~Truthy(Get(s, "transcript", Str("")))
  /\ ~Truthy(Get(s, "ocr_text", List(<<>>)))

\* StatusOf with PASS as the default of a missing status.
StatusOf_DefaultPass(audit_data) == Get(audit_data, "status", Str("PASS"))

\* Line 179: audit_data.get("status", "FAIL")
StatusOf(audit_data) == Get(audit_data, "status", Str("FAIL"))

\* Lines 177-181: the update built from the parsed object.
VerdictUpdate(audit_data) ==
  [compliance_results |-> Get(audit_data, "compliance_results", List(<<>>)),
   final_status |-> StatusOf(audit_data),
   final_report |-> Get(audit_data, "final_report", Str(NoReportPlaceholder))]

\* ParseErrorReport with the whole raw response, the slice dropped.
ParseErrorReport_Whole(raw) ==
  FStr(<<[tok |-> "AI Parsing Error. Raw output start: ", n |-> 36]>>
       \o raw
       \o <<[tok |-> "...", n |-> 3]>>)

\* Line 188: the report of the parse-error fallback.
ParseErrorReport(raw) ==
  FStr(<<[tok |-> "AI Parsing Error. Raw output start: ", n |-> 36]>>
       \o Slice(raw, RawPrefixLen)
       \o <<[tok |-> "...", n |-> 3]>>)

\* Lines 185-189: the update of the parse-error fallback.
ParseErrorUpdate(raw) ==
  [errors |-> List(<<Str(ParseErrorMessage)>>),
   final_status |-> Str("FAIL"),
   final_report |-> ParseErrorReport(raw)]

\* AuditErrorUpdate that also clears the content, as the indexer's does.
AuditErrorUpdate_ClearsContent(msg) ==
  [errors |-> List(<<Str(msg)>>), final_status |-> Str("FAIL"),
   transcript |-> Str(""), ocr_text |-> List(<<>>)]

\* Line 192: the update when any other exception is caught.
AuditErrorUpdate(msg) ==
  [errors |-> List(<<Str(msg)>>), final_status |-> Str("FAIL")]

\* Lines 158-192: the try block.  env.gen is what llm.invoke does: it returns
\* env.content, raises json.JSONDecodeError, or raises another exception.
\* When llm.invoke itself raises JSONDecodeError the handler of line 182 reads
\* response (line 184), which was never bound: UnboundLocalError leaves the node.
GenerateAndParse(env, evs) ==
  CASE env.gen = "raise" -> Return(AuditErrorUpdate("generation failed"), evs)
    [] env.gen = "raise_json" ->
         Raise("UnboundLocalError: response", evs)
    [] OTHER ->
         LET parsed == Loads(ExtractContent(env.content)) IN
         IF ~parsed.ok THEN Return(ParseErrorUpdate(env.content), evs)
         ELSE IF parsed.value.t # "dict"
         THEN Return(AuditErrorUpdate("AttributeError: no attribute 'get'"), evs)
         ELSE Return(VerdictUpdate(parsed.value.v), evs)

\* compliance_audit_node without the short-circuit of lines 81-86.
compliance_audit_node_NoShortCircuit(s, env) ==
  IF env.clients = "raise"
  THEN Raise("client construction failed", <<>>)
  ELSE IF env.search = "raise"
  THEN Raise("similarity_search failed", <<"search">>)
  ELSE GenerateAndParse(env, <<"search", "generate">>)

\* Lines 70-192.  Client construction (89-107) and the knowledge-store search
\* (111) are outside the try block: an exception there leaves the node.
compliance_audit_node(s, env) ==
  IF ContentEmpty(s)
  THEN Return([final_status |-> Str("FAIL"),
               final_report |-> Str(NoContentReport)], <<>>)
  ELSE IF env.clients = "raise"
  THEN Raise("client construction failed", <<>>)
  ELSE IF env.search = "raise"
  THEN Raise("similarity_search failed", <<"search">>)
  ELSE GenerateAndParse(env, <<"search", "generate">>)

\* ------------------------------------ video_indexer.py: VideoIndexerService
FailedMessage == "Video processing failed in Azure Video Indexer"
QuarantinedMessage ==
  "Video is quarantined in Azure Video Indexer (Copyright/Content Policy Violation)"

\* One insights block: the harvested lines, "" standing for an item whose
\* text (or name) is empty or missing.
Block(t, o, b) == [transcript |-> t, ocr |-> o, brands |-> b]

\* The JSON an Index request answers with once the video is processed.
\* insights_null: the "insights" key is present and null.
RawA ==
  [id |-> "vi-1", duration |-> "0:30", insights_null |-> FALSE,
   insights |-> Block(<<"A", "B", "A">>, <<"SALE", "SALE">>, <<"Acme">>),
   videos |-> <<Block(<<"C", "B", "">>, <<"50 OFF">>, <<"Acme", "Rival">>)>>]
RawEmpty ==
  [id |-> "vi-2", duration |-> "0:05", insights_null |-> FALSE,
   insights |-> Block(<<>>, <<>>, <<>>), videos |-> <<>>]
RawOcrOnly ==
  [id |-> "vi-3", duration |-> "0:10", insights_null |-> FALSE,
   insights |-> Block(<<>>, <<"SALE">>, <<>>), videos |-> <<>>]
RawNull ==
  [id |-> "vi-4", duration |-> "0:10", insights_null |-> TRUE,
   insights |-> Block(<<>>, <<>>, <<>>), videos |-> <<>>]
RawResults == {RawA, RawEmpty, RawOcrOnly, RawNull}

\* No result yet.
NoRaw ==
  [id |-> "", duration |-> "", insights_null |-> FALSE,
   insights |-> Block(<<>>, <<>>, <<>>), videos |-> <<>>]

\* Lines 147-154: the items of one kind of a block whose text is not empty.
Harvest(block, kind) == SelectSeq(block[kind], LAMBDA x : x # "")

\* Lines 157-164: the top-level block first, then each video's block in order.
RECURSIVE HarvestVideos(_, _)
HarvestVideos(videos, kind) ==
  IF videos = <<>> THEN <<>>
  ELSE Harvest(Head(videos), kind) \o HarvestVideos(Tail(videos), kind)

\* HarvestAll with the per-video blocks scanned before the top-level block.
HarvestAll_VideosFirst(vi_json, kind) ==
  HarvestVideos(vi_json.videos, kind) \o Harvest(vi_json.insights, kind)

HarvestAll(vi_json, kind) ==
  Harvest(vi_json.insights, kind) \o HarvestVideos(vi_json.videos, kind)

\* Dedup keeping the last occurrence of each line instead of the first.
RECURSIVE Dedup_KeepLast(_)
Dedup_KeepLast(lines) ==
  IF lines = <<>> THEN <<>>
  ELSE LET rest == Dedup_KeepLast(Tail(lines)) IN
       IF \E i \in 1..Len(rest) : rest[i] = Head(lines) THEN rest
       ELSE <<Head(lines)>> \o rest

\* list(dict.fromkeys(lines)): first occurrences, in order.
RECURSIVE Dedup(_)
Dedup(lines) ==
  IF lines = <<>> THEN <<>>
  ELSE LET init == Dedup(SubSeq(lines, 1, Len(lines) - 1))
           last == lines[Len(lines)]
       IN IF \E i \in 1..Len(init) : init[i] = last THEN init
          ELSE Append(init, last)

\* " ".join(lines)
RECURSIVE JoinSp(_)
JoinSp(lines) ==
  IF lines = <<>> THEN ""
  ELSE IF Len(lines) = 1 THEN lines[1]
  ELSE lines[1] \o " " \o JoinSp(Tail(lines))

StrList(lines) == List([i \in 1..Len(lines) |-> Str(lines[i])])

\* extract_data that also reports a verdict.
extract_data_WithStatus(vi_json) ==
  [transcript |-> Str(JoinSp(Dedup(HarvestAll(vi_json, "transcript")))),
   ocr_text |-> StrList(Dedup(HarvestAll(vi_json, "ocr"))),
   detected_brands |-> StrList(Dedup(HarvestAll(vi_json, "brands"))),
   video_metadata |-> Dict([duration |-> Str(vi_json.duration),
                            platform |-> Str("youtube"),
                            id |-> Str(vi_json.id)]),
   final_status |-> Str("PASS")]

\* Lines 138-176, for a result whose insights are not null.
extract_data(vi_json) ==
  [transcript |-> Str(JoinSp(Dedup(HarvestAll(vi_json, "transcript")))),
   ocr_text |-> StrList(Dedup(HarvestAll(vi_json, "ocr"))),
   detected_brands |-> StrList(Dedup(HarvestAll(vi_json, "brands"))),
   video_metadata |-> Dict([duration |-> Str(vi_json.duration),
                            platform |-> Str("youtube"),
                            id |-> Str(vi_json.id)])]

\* What one status check of wait_for_processing can meet (lines 111-133).
TransientOutcomes == {"non200", "Processing", "no_state"}
CheckOutcomes ==
  {"token_error", "request_error", "Processed", "Failed", "Quarantined"}
    \cup TransientOutcomes

\* PollTurn raising on a response that carries no state.
PollTurn_NoStateRaises(out) ==
  CASE out = "token_error" ->
         [kind |-> "raise", msg |-> "Failed to get access token", events |-> <<>>]
    [] out = "request_error" ->
         [kind |-> "raise", msg |-> "ConnectionError", events |-> <<"check">>]
    [] out = "no_state" ->
         [kind |-> "raise", msg |-> "KeyError: 'state'", events |-> <<"check">>]
    [] out = "Failed" ->
         [kind |-> "raise", msg |-> FailedMessage, events |-> <<"check">>]
    [] out = "Quarantined" ->
         [kind |-> "raise", msg |-> QuarantinedMessage, events |-> <<"check">>]
    [] out = "Processed" ->
         [kind |-> "return", msg |-> "", events |-> <<"check">>]
    [] OTHER ->
         [kind |-> "again", msg |-> "", events |-> <<"check", "wait">>]

\* PollTurn without the sleep of lines 121 and 136.
PollTurn_NoWait(out) ==
  CASE out = "token_error" ->
         [kind |-> "raise", msg |-> "Failed to get access token", events |-> <<>>]
    [] out = "request_error" ->
         [kind |-> "raise", msg |-> "ConnectionError", events |-> <<"check">>]
    [] out = "Failed" ->
         [kind |-> "raise", msg |-> FailedMessage, events |-> <<"check">>]
    [] out = "Quarantined" ->
         [kind |-> "raise", msg |-> QuarantinedMessage, events |-> <<"check">>]
    [] out = "Processed" ->
         [kind |-> "return", msg |-> "", events |-> <<"check">>]
    [] OTHER ->
         [kind |-> "again", msg |-> "", events |-> <<"check">>]

\* PollTurn without the branch of lines 130-131: Failed is polled again.
PollTurn_FailedRetries(out) ==
  CASE out = "token_error" ->
         [kind |-> "raise", msg |-> "Failed to get access token", events |-> <<>>]
    [] out = "request_error" ->
         [kind |-> "raise", msg |-> "ConnectionError", events |-> <<"check">>]
    [] out = "Quarantined" ->
         [kind |-> "raise", msg |-> QuarantinedMessage, events |-> <<"check">>]
    [] out = "Processed" ->
         [kind |-> "return", msg |-> "", events |-> <<"check">>]
    [] OTHER ->
         [kind |-> "again", msg |-> "", events |-> <<"check", "wait">>]

\* PollTurn with a status code other than 200 raising instead of sleeping.
PollTurn_Non200Raises(out) ==
  CASE out = "token_error" ->
         [kind |-> "raise", msg |-> "Failed to get access token", events |-> <<>>]
    [] out = "request_error" ->
         [kind |-> "raise", msg |-> "ConnectionError", events |-> <<"check">>]
    [] out = "non200" ->
         [kind |-> "raise", msg |-> "Status check failed", events |-> <<"check">>]
    [] out = "Failed" ->
         [kind |-> "raise", msg |-> FailedMessage, events |-> <<"check">>]
    [] out = "Quarantined" ->
         [kind |-> "raise", msg |-> QuarantinedMessage, events |-> <<"check">>]
    [] out = "Processed" ->
         [kind |-> "return", msg |-> "", events |-> <<"check">>]
    [] OTHER ->
         [kind |-> "again", msg |-> "", events |-> <<"check", "wait">>]

\* One turn of the loop of wait_for_processing, by what the status check comes
\* to: [kind, msg, events].  kind "raise": an exception leaves the method
\* (the tokens of lines 111-112, the request of line 117, lines 131 and 133);
\* "return": line 129; "again": the sleep of line 121 or 136, then the loop.
PollTurn(out) ==
  CASE out = "token_error" ->
         [kind |-> "raise", msg |-> "Failed to get access token", events |-> <<>>]
    [] out = "request_error" ->
         [kind |-> "raise", msg |-> "ConnectionError", events |-> <<"check">>]
    [] out = "Failed" ->
         [kind |-> "raise", msg |-> FailedMessage, events |-> <<"check">>]
    [] out = "Quarantined" ->
         [kind |-> "raise", msg |-> QuarantinedMessage, events |-> <<"check">>]
    [] out = "Processed" ->
         [kind |-> "return", msg |-> "", events |-> <<"check">>]
    [] OTHER ->
         [kind |-> "again", msg |-> "", events |-> <<"check", "wait">>]

\* --------------------------------------------- nodes.py: index_video_node
UnsupportedMessage ==
  "Unsupported video URL. Only YouTube URLs are supported in this"

\* A URL is a Str whose value is the sequence of its parts.
Url(parts) == [t |-> "str", v |-> parts]

\* needle in url
Contains(url, needle) == \E i \in 1..Len(url.v) : url.v[i] = needle

\* Supported with the test of line 40 dropped: every URL is downloaded.
Supported_Any(video_url) == TRUE

\* Line 40
Supported(video_url) ==
  Contains(video_url, "youtube.com") \/ Contains(video_url, "youtu.be")

\* IndexFailureUpdate without the cleared content keys.
IndexFailureUpdate_NoContentKeys(msg) ==
  [errors |-> List(<<Str(msg)>>),
   final_status |-> Str("FAIL")]

\* Lines 62-67: the update of the except block.
IndexFailureUpdate(msg) ==
  [errors |-> List(<<Str(msg)>>),
   final_status |-> Str("FAIL"),
   transcript |-> Str(""),
   ocr_text |-> List(<<>>)]

\* ------------------------------------------------------------ the inputs
\* A finding already present in the input of a caller that resumes an audit.
F0 == Dict([category |-> Str("Tonality"), severity |-> Str("LOW"),
            description |-> Str("earlier finding")])

\* The dicts app.invoke is called with: server.py lines 96-103 (a supported
\* and an unsupported URL), check_specific_video.py lines 12-17, main.py
\* lines 47-61 (an empty URL), an input without video_url, and an input that
\* carries earlier errors and findings.
InitialInputs ==
  {[video_url |-> Url(<<"https://www.", "youtube.com", "/watch?v=a">>),
    video_id |-> Str("vid_1"), region |-> Str("Global"),
    detected_brands |-> List(<<>>), compliance_results |-> List(<<>>),
    errors |-> List(<<>>)],
   [video_url |-> Url(<<"https://", "vimeo.com", "/1">>),
    video_id |-> Str("vid_2"), region |-> Str("Europe"),
    detected_brands |-> List(<<>>), compliance_results |-> List(<<>>),
    errors |-> List(<<>>)],
   [video_url |-> Url(<<"https://", "youtu.be", "/a">>),
    video_id |-> Str("vid_3"),
    compliance_results |-> List(<<>>), errors |-> List(<<>>)],
   [video_url |-> Url(<<>>), video_id |-> Str("vid_4"),
    compliance_results |-> List(<<>>), errors |-> List(<<>>)],
   [video_id |-> Str("vid_5"),
    compliance_results |-> List(<<>>), errors |-> List(<<>>)],
   [video_url |-> Url(<<"https://www.", "youtube.com", "/watch?v=b">>),
    video_id |-> Str("vid_6"), region |-> Str("Global"),
    compliance_results |-> List(<<F0>>),
    errors |-> List(<<Str("earlier error")>>)]}

\* Sequences over S of length at most n.
SeqsUpTo(S, n) == UNION {[1..k -> S] : k \in 0..n}

\* The shapes of a response: where its fences, tag, whitespace, stray text
\* and body are.
ShapeTokens == {Fence, Tag, Ws, Junk, Body}
BodyTokens == DocTokens \cup {LongJunk}
Fill(shape, d) ==
  [i \in 1..Len(shape) |-> IF shape[i] = Body THEN d ELSE shape[i]]

\* The texts the generative service answers with.
Responses ==
  {Text(Fill(shape, d)) : shape \in SeqsUpTo(ShapeTokens, MaxRespLen),
                          d \in BodyTokens}

\* What the collaborators of the Audit stage do in one call of the node.
AuditEnv(c, se, g, txt) == [clients |-> c, search |-> se, gen |-> g, content |-> txt]
AuditEnvs ==
  {AuditEnv("raise", "ok", "text", <<>>), AuditEnv("ok", "raise", "text", <<>>),
   AuditEnv("ok", "ok", "raise", <<>>), AuditEnv("ok", "ok", "raise_json", <<>>)}
    \cup {AuditEnv("ok", "ok", "text", r) : r \in Responses}

\* ------------------------------------------------------------- the machine
VARIABLES
  node,          \* the node the driver is at, END, or RAISED
  ipc,           \* the position inside index_video_node
  state,         \* the graph state (VideoAuditState)
  log,           \* node entries and returns and external calls, in order
  last_update,   \* the partial update the last returned node gave
  last_response, \* the text llm.invoke returned, if it returned one
  file_exists,   \* whether temp_audit_video.mp4 exists
  raw_insights,  \* what wait_for_processing returned
  escaped,       \* the message of the exception that left invoke()
  call           \* one call of a single function, followed on its own

vars ==
  <<node, ipc, state, log, last_update, last_response, file_exists,
    raw_insights, escaped, call>>

\* The variables of a run of the graph.
runvars ==
  <<node, ipc, state, log, last_update, last_response, file_exists,
    raw_insights, escaped>>

\* No single function is being followed.
NoCall == [fn |-> "none"]

NoResponse == [got |-> FALSE, content |-> <<>>]

Count(ev) == Cardinality({i \in 1..Len(log) : log[i] = ev})

Init ==
  /\ state \in InitialInputs
  /\ node = EntryPoint
  /\ ipc = "validate"
  /\ log = <<"enter indexer">>
  /\ last_update = EmptyDict
  /\ last_response = NoResponse
  /\ file_exists = FALSE
  /\ raw_insights = NoRaw
  /\ escaped = ""
  /\ call = NoCall

\* The driver takes the update u of the node that has just returned, having
\* made the calls evs: it applies the reducers and follows the edge.  A
\* reducer that raises ends invoke() with the exception.
Apply(u, evs) ==
  /\ last_update' = u
  /\ IF MergeOk(state, u)
     THEN LET merged == Merge(state, u)
              next == NextNode(node, merged)
          IN /\ state' = merged
             /\ node' = next
             /\ log' = log \o evs \o <<"return " \o node>>
                         \o (IF next = END THEN <<>> ELSE <<"enter " \o next>>)
             /\ escaped' = escaped
     ELSE /\ state' = state
          /\ node' = RAISED
          /\ log' = log \o evs \o <<"return " \o node>>
          /\ escaped' = "TypeError: can only concatenate list to list"

\* The except block of index_video_node (lines 60-67).
IndexFails(msg, evs) ==
  /\ Apply(IndexFailureUpdate(msg), evs)
  /\ ipc' = "off"

\* Lines 30-45: the service is constructed and the URL is looked at.
IndexValidate ==
  /\ node = "indexer" /\ ipc = "validate"
  /\ \E ctor \in {"ok", "raise"} :
       IF ctor = "raise" THEN IndexFails("credential construction failed", <<>>)
       ELSE IF "video_url" \notin DOMAIN state
       THEN IndexFails("TypeError: argument of type 'NoneType' is not iterable", <<>>)
       ELSE IF ~Supported(state["video_url"])
       THEN IndexFails(UnsupportedMessage, <<>>)
       ELSE /\ ipc' = "download"
            /\ UNCHANGED <<node, state, log, last_update, escaped>>
  /\ UNCHANGED <<last_response, file_exists, raw_insights, call>>

\* Lines 42-43: download_youtube_video.
IndexDownload ==
  /\ node = "indexer" /\ ipc = "download"
  /\ \E out \in {"ok", "raise"} :
       IF out = "ok"
       THEN /\ ipc' = "upload"
            /\ file_exists' = TRUE
            /\ log' = Append(log, "download")
            /\ UNCHANGED <<node, state, last_update, escaped>>
       ELSE /\ IndexFails("download failed", <<"download">>)
            /\ UNCHANGED file_exists
  /\ UNCHANGED <<last_response, raw_insights, call>>

\* Line 47: upload_video (the tokens, then the file is posted).
IndexUpload ==
  /\ node = "indexer" /\ ipc = "upload"
  /\ \E out \in {"ok", "token_error", "non200"} :
       IF out = "token_error"
       THEN IndexFails("Failed to get access token", <<>>)
       ELSE IF ~file_exists
       THEN IndexFails("FileNotFoundError", <<>>)
       ELSE IF out = "non200"
       THEN IndexFails("Failed to upload video on Azure Video Indexer", <<"upload">>)
       ELSE /\ ipc' = "cleanup"
            /\ log' = Append(log, "upload")
            /\ UNCHANGED <<node, state, last_update, escaped>>
  /\ UNCHANGED <<last_response, file_exists, raw_insights, call>>

\* IndexCleanup without lines 50-51: the file is left and polling starts.
IndexCleanup_Skip ==
  /\ node = "indexer" /\ ipc = "cleanup"
  /\ ipc' = "poll"
  /\ UNCHANGED <<node, state, log, last_update, escaped, file_exists>>
  /\ UNCHANGED <<last_response, raw_insights, call>>

\* Lines 50-51: the local file is removed if it exists.
IndexCleanup ==
  /\ node = "indexer" /\ ipc = "cleanup"
  /\ IF file_exists
     THEN \E out \in {"ok", "raise"} :
            IF out = "ok"
            THEN /\ file_exists' = FALSE
                 /\ ipc' = "poll"
                 /\ log' = Append(log, "remove")
                 /\ UNCHANGED <<node, state, last_update, escaped>>
            ELSE /\ IndexFails("PermissionError: remove failed", <<"remove">>)
                 /\ UNCHANGED file_exists
     ELSE /\ ipc' = "poll"
          /\ UNCHANGED <<node, state, log, last_update, escaped, file_exists>>
  /\ UNCHANGED <<last_response, raw_insights, call>>

\* One turn of the loop of wait_for_processing (lines 110-136), the sleep of a
\* turn that goes round again included.
PollCheck ==
  /\ node = "indexer" /\ ipc = "poll"
  /\ Count("check") < MaxChecks
  /\ \E out \in CheckOutcomes :
       LET turn == PollTurn(out) IN
       CASE turn.kind = "raise" ->
              /\ IndexFails(turn.msg, turn.events)
              /\ UNCHANGED raw_insights
         [] turn.kind = "return" ->
              /\ \E data \in RawResults : raw_insights' = data
              /\ ipc' = "extract"
              /\ log' = log \o turn.events
              /\ UNCHANGED <<node, state, last_update, escaped>>
         [] OTHER ->
              /\ log' = log \o turn.events
              /\ UNCHANGED <<node, ipc, state, last_update, escaped, raw_insights>>
  /\ UNCHANGED <<last_response, file_exists, call>>

\* Lines 56-58: extract_data, and the node returns its result.
IndexExtract ==
  /\ node = "indexer" /\ ipc = "extract"
  /\ IF raw_insights.insights_null
     THEN IndexFails("AttributeError: 'NoneType' object has no attribute 'get'", <<>>)
     ELSE /\ Apply(extract_data(raw_insights), <<>>)
          /\ ipc' = "off"
  /\ UNCHANGED <<last_response, file_exists, raw_insights, call>>

\* compliance_audit_node is called on the state and returns or raises.
Audit ==
  /\ node = "auditor"
  /\ \E env \in AuditEnvs :
       LET r == compliance_audit_node(state, env) IN
       /\ last_response' =
            IF r.events = <<"search", "generate">> /\ env.gen = "text"
            THEN [got |-> TRUE, content |-> env.content]
            ELSE NoResponse
       /\ IF r.kind = "return"
          THEN Apply(r.update, r.events)
          ELSE /\ node' = RAISED
               /\ escaped' = r.exc
               /\ log' = log \o r.events
               /\ UNCHANGED <<state, last_update>>
  /\ UNCHANGED <<ipc, file_exists, raw_insights, call>>

Next ==
  \/ IndexValidate
  \/ IndexDownload
  \/ IndexUpload
  \/ IndexCleanup
  \/ PollCheck
  \/ IndexExtract
  \/ Audit

Spec == Init /\ [][Next]_vars

\* ------------------------------------------- single functions on their own
\* No graph is running.
NoRun ==
  /\ node = "off"
  /\ ipc = "off"
  /\ state = EmptyDict
  /\ log = <<>>
  /\ last_update = EmptyDict
  /\ last_response = NoResponse
  /\ file_exists = FALSE
  /\ raw_insights = NoRaw
  /\ escaped = ""

\* .................................... compliance_audit_node on a response
\* Longest response given to the Audit stage on its own, in tokens.
MaxParseLen == 4

ParseTokens == {Fence, Tag, Ws, Junk, "objPass", "objFail", "objMaybe", "arr"}

\* A state the indexer has filled with content.
ContentState ==
  [video_url |-> Url(<<"https://www.", "youtube.com", "/watch?v=a">>),
   video_id |-> Str("vid_1"), region |-> Str("Global"),
   compliance_results |-> List(<<>>), errors |-> List(<<>>),
   transcript |-> Str("A B C"), ocr_text |-> List(<<Str("SALE")>>),
   detected_brands |-> List(<<>>), video_metadata |-> Dict(EmptyDict)]

InitParse ==
  /\ NoRun
  /\ \E toks \in SeqsUpTo(ParseTokens, MaxParseLen) :
       call = [fn |-> "audit", arg |-> Text(toks), done |-> FALSE,
               result |-> Return(EmptyDict, <<>>)]

\* The Audit stage is called on ContentState; llm.invoke returns call.arg.
AuditOnResponse ==
  /\ call.fn = "audit" /\ ~call.done
  /\ call' = [call EXCEPT
       !.done = TRUE,
       !.result = compliance_audit_node(ContentState,
                                        AuditEnv("ok", "ok", "text", call.arg))]
  /\ UNCHANGED runvars

SpecParse == InitParse /\ [][AuditOnResponse]_vars

\* ============================================================== properties
\* Helpers of the properties.
IsPrefix(a, b) == Len(a) <= Len(b) /\ SubSeq(b, 1, Len(a)) = a

FinalStatus == Get(state, "final_status", None)

\* The events of the log that are node entries and returns.
NodeEvents ==
  SelectSeq(log, LAMBDA e : e \in {"enter indexer", "return indexer",
                                   "enter auditor", "return auditor"})

\* The response llm.invoke returned parsed as a JSON document.
ResponseParsed ==
  /\ last_response.got
  /\ Loads(ExtractContent(last_response.content)).ok

ParsedValue == Loads(ExtractContent(last_response.content)).value

\* The Audit stage has just returned the update built from a parsed object.
AuditReturnedVerdict ==
  /\ log[Len(log)] = "return auditor"
  /\ ResponseParsed
  /\ ParsedValue.t = "dict"

\* C1 (fail-closed verdict): when the run is at END with final_status PASS,
\* the Audit stage called the generative service and the response parsed as a
\* JSON object whose status field is PASS.
C1_FailClosed ==
  (node = END /\ FinalStatus = Str("PASS")) =>
    /\ Count("generate") = 1
    /\ ResponseParsed
    /\ ParsedValue.t = "dict"
    /\ "status" \in DOMAIN ParsedValue.v
    /\ ParsedValue.v["status"] = Str("PASS")

\* A run that ends PASS on a verdict taken out of a fenced block.
C1_Witness ==
  /\ node = END
  /\ FinalStatus = Str("PASS")
  /\ last_response.got
  /\ FenceSearch(last_response.content).found

\* C2 (verdict mapping): when the response parsed to an object, the update has
\* final_status = status if status is PASS or FAIL and FAIL otherwise,
\* final_report = the object's report or the placeholder when absent, and
\* compliance_results = the object's or the empty list when absent.
C2_VerdictMapping ==
  AuditReturnedVerdict =>
    LET obj == ParsedValue.v IN
    /\ last_update["final_status"] =
         (IF "status" \in DOMAIN obj /\ obj["status"] \in {Str("PASS"), Str("FAIL")}
          THEN obj["status"] ELSE Str("FAIL"))
    /\ last_update["final_report"] =
         (IF "final_report" \in DOMAIN obj THEN obj["final_report"]
          ELSE Str(NoReportPlaceholder))
    /\ last_update["compliance_results"] =
         (IF "compliance_results" \in DOMAIN obj THEN obj["compliance_results"]
          ELSE List(<<>>))

\* C3 (verdict is PASS or FAIL): at END final_status is set and is exactly
\* PASS or FAIL.
C3_FinalStatusPassOrFail ==
  node = END =>
    /\ "final_status" \in DOMAIN state
    /\ state["final_status"] \in {Str("PASS"), Str("FAIL")}

\* C4 (a report at the end): at END the state carries a final_report that is
\* a string.
C4_FinalReportIsString ==
  node = END =>
    /\ "final_report" \in DOMAIN state
    /\ IsStr(state["final_report"])

\* C5 (append-only growth): in every step the old errors are a prefix of the
\* new errors and the old compliance_results a prefix of the new ones.
C5_AppendOnly ==
  [][\A k \in AppendKeys : IsPrefix(state[k].v, state'[k].v)]_vars

\* A run in which a stage added an error behind one that was already there.
C5_Witness ==
  /\ node = END
  /\ Len(state["errors"].v) = 2
  /\ state["errors"].v[1] = Str("earlier error")

\* C6 (merge rule): whenever a node's update is merged, the append-only keys
\* of the update hold the old sequence followed by the update's, every other
\* key of the update holds the update's value, and every key absent from the
\* update keeps its old value; [f1] then [f2] gives [f1, f2]; FAIL then PASS
\* gives PASS.
C6_MergeRule ==
  [][(node' # node /\ node' # RAISED) =>
       /\ DOMAIN state' = DOMAIN state \cup DOMAIN last_update'
       /\ \A k \in DOMAIN state' :
            /\ (k \in DOMAIN last_update' /\ k \in AppendKeys) =>
                 state'[k] = List(state[k].v \o last_update'[k].v)
            /\ (k \in DOMAIN last_update' /\ k \notin AppendKeys) =>
                 state'[k] = last_update'[k]
            /\ k \notin DOMAIN last_update' => state'[k] = state[k]
       /\ Merge(Merge(state, [compliance_results |-> List(<<F0>>)]),
                [compliance_results |-> List(<<F1>>)])["compliance_results"]
            = List(state["compliance_results"].v \o <<F0, F1>>)
       /\ Merge(Merge(state, [final_status |-> Str("FAIL")]),
                [final_status |-> Str("PASS")])["final_status"] = Str("PASS")
    ]_vars

\* A run in which findings were appended to earlier ones and the content keys
\* were overwritten.
C6_Witness ==
  /\ node = END
  /\ state["compliance_results"].v = <<F0, F1>>
  /\ state["transcript"] = Str("A B C")

EmptyContentState ==
  /\ Get(state, "transcript", Str("")) \in {Str(""), None}
  /\ Get(state, "ocr_text", List(<<>>)) \in {List(<<>>), None}

\* C8 (empty-content short-circuit): a call of the Audit stage on a state with
\* empty transcript and empty on-screen text returns final_status FAIL and
\* the fixed report, makes no search and no generative call, and adds no
\* error.
C8_EmptyShortCircuit ==
  [][(node = "auditor" /\ EmptyContentState) =>
       /\ node' = END
       /\ last_update' = [final_status |-> Str("FAIL"),
                          final_report |-> Str(NoContentReport)]
       /\ log' = Append(log, "return auditor")
       /\ state'["errors"] = state["errors"]
       /\ state'["final_status"] = Str("FAIL")
    ]_vars

\* The short-circuit taken after an Indexing that succeeded with no content.
C8_Witness ==
  /\ node = END
  /\ raw_insights = RawEmpty
  /\ state["final_report"] = Str(NoContentReport)
  /\ Count("search") = 0
  /\ Count("generate") = 0

\* C9 (stages never raise): every call of a node ends with the node
\* returning an update; no exception leaves a node.
C9_StagesNeverRaise ==
  node = RAISED => log[Len(log)] \in {"return indexer", "return auditor"}

\* The characters of p are the first RawPrefixLen characters of raw.
IsBoundedPrefix(p, raw) ==
  /\ CharLen(p) = (IF CharLen(raw) < RawPrefixLen THEN CharLen(raw) ELSE RawPrefixLen)
  /\ Len(p) <= Len(raw)
  /\ \A i \in 1..Len(p) :
       /\ p[i].tok = raw[i].tok
       /\ p[i].n <= raw[i].n
       /\ i < Len(p) => p[i].n = raw[i].n

\* C10 (malformed-response fallback): when the response does not parse as
\* JSON the Audit stage returns final_status FAIL, the one parse-failure
\* error, a report holding only the first 100 characters of the raw response,
\* and no findings.
C10_MalformedFallback ==
  (last_response.got /\ ~ResponseParsed) =>
    /\ node = END
    /\ log[Len(log)] = "return auditor"
    /\ DOMAIN last_update = {"errors", "final_status", "final_report"}
    /\ last_update["errors"] = List(<<Str(ParseErrorMessage)>>)
    /\ last_update["final_status"] = Str("FAIL")
    /\ last_update["final_report"].t = "fstr"
    /\ LET rep == last_update["final_report"].v IN
       /\ Len(rep) >= 2
       /\ rep[1].tok = "AI Parsing Error. Raw output start: "
       /\ rep[Len(rep)].tok = "..."
       /\ IsBoundedPrefix(SubSeq(rep, 2, Len(rep) - 1), last_response.content)
    /\ state["final_status"] = Str("FAIL")

\* The fallback taken on a response longer than 100 characters.
C10_Witness ==
  /\ last_response.got
  /\ ~ResponseParsed
  /\ CharLen(last_response.content) > RawPrefixLen
  /\ node = END

\* ..................................... wait_for_processing on a canned service
\* Longest canned sequence of check outcomes.
MaxScript == 3

\* What one status check comes to, with the JSON of a Processed answer.
PollEntries ==
  {[out |-> o, data |-> NoRaw] : o \in CheckOutcomes \ {"Processed"}}
    \cup {[out |-> "Processed", data |-> d] : d \in {RawA, RawEmpty}}

InitPoll ==
  /\ NoRun
  /\ \E script \in SeqsUpTo(PollEntries, MaxScript) :
       call = [fn |-> "wait_for_processing", script |-> script, seen |-> <<>>,
               pc |-> "loop", events |-> <<>>, msg |-> "", result |-> NoRaw]

\* One turn of the while loop (lines 110-136) against the next canned outcome.
PollStep ==
  /\ call.fn = "wait_for_processing"
  /\ call.pc = "loop" /\ call.script # <<>>
  /\ LET e == Head(call.script)
         turn == PollTurn(e.out)
     IN call' = [call EXCEPT
          !.script = Tail(call.script),
          !.seen = Append(call.seen, e),
          !.events = call.events \o turn.events,
          !.pc = CASE turn.kind = "raise" -> "raised"
                   [] turn.kind = "return" -> "returned"
                   [] OTHER -> "loop",
          !.msg = turn.msg,
          !.result = IF turn.kind = "return" THEN e.data ELSE NoRaw]
  /\ UNCHANGED runvars

SpecPoll == InitPoll /\ [][PollStep]_vars

\* ............................ wait_for_processing against a service that lives
\* The state the service reports for the video; a terminal state is final.
ServiceStates == {"Processing", "no_state", "Processed", "Failed", "Quarantined"}
TerminalStates == {"Processed", "Failed", "Quarantined"}

\* How a status check fares on the way: answered with 200, answered with
\* another code, the request raising, a token not granted.
Links == {"ok", "non200", "request_error", "token_error"}

InitLive ==
  /\ NoRun
  /\ \E st \in ServiceStates, ln \in Links :
       call = [fn |-> "poller", status |-> st, link |-> ln, pc |-> "loop",
               last |-> "none", waited |-> FALSE]

\* The analysis goes on: a state that is not terminal gives way to another.
ServiceMoves ==
  /\ call.fn = "poller"
  /\ call.status \notin TerminalStates
  /\ \E st \in ServiceStates \ {call.status} : call' = [call EXCEPT !.status = st]
  /\ UNCHANGED runvars

\* The transport gets better or worse.
LinkFlips ==
  /\ call.fn = "poller"
  /\ \E ln \in Links \ {call.link} : call' = [call EXCEPT !.link = ln]
  /\ UNCHANGED runvars

\* One turn of the while loop (lines 110-136): there is no counter and no
\* deadline, the turn is taken whenever the method is in its loop.
LiveStep ==
  /\ call.fn = "poller"
  /\ call.pc = "loop"
  /\ LET out == IF call.link = "ok" THEN call.status ELSE call.link
         turn == PollTurn(out)
     IN call' = [call EXCEPT
          !.pc = CASE turn.kind = "raise" -> "raised"
                   [] turn.kind = "return" -> "returned"
                   [] OTHER -> "loop",
          !.last = out,
          !.waited = call.waited \/ turn.kind = "again"]
  /\ UNCHANGED runvars

NextLive ==
  \/ ServiceMoves
  \/ LinkFlips
  \/ LiveStep

\* The thread that runs the loop keeps running: every sleep ends and every
\* request is answered or raises, so a turn that can be taken is taken.
SpecPollLive == InitLive /\ [][NextLive]_vars /\ WF_vars(LiveStep)

\* ............................................ extract_data on a raw result
\* Longest sequence of harvested items.
MaxLines == 5

\* The texts of the items; "" is an item without text.
LineTexts == {"A", "B", "C", "a", ""}

\* A raw result whose transcript items all stand at the top level, whose ocr
\* items all stand in the first video, and whose brands are split between them.
RawOf(lines) ==
  LET half == Len(lines) \div 2 IN
  [id |-> "vi-9", duration |-> "0:30", insights_null |-> FALSE,
   insights |-> Block(lines, <<>>, SubSeq(lines, 1, half)),
   videos |-> <<Block(<<>>, lines, SubSeq(lines, half + 1, Len(lines)))>>]

InitExtract ==
  /\ NoRun
  /\ \E lines \in SeqsUpTo(LineTexts, MaxLines) :
       call = [fn |-> "extract_data", lines |-> lines, arg |-> RawOf(lines),
               done |-> FALSE, result |-> EmptyDict]

ExtractCall ==
  /\ call.fn = "extract_data" /\ ~call.done
  /\ call' = [call EXCEPT !.done = TRUE, !.result = extract_data(call.arg)]
  /\ UNCHANGED runvars

SpecExtract == InitExtract /\ [][ExtractCall]_vars

\* ........................................ jobs run by the server's threadpool
\* Number of audits the server runs at the same time.
NumJobs == 2

Jobs == 1..NumJobs

\* No file, nothing submitted.
NoMedia == 0

\* The video behind the URL of job j.
MediaOf(j) == j

\* Every job is a thread in index_video_node about to download; the working
\* directory holds no file named by local_filename (nodes.py line 35), the one
\* name every job uses.
InitJobs ==
  /\ NoRun
  /\ call = [fn |-> "jobs",
             pc |-> [j \in Jobs |-> "download"],
             file |-> NoMedia,
             sent |-> [j \in Jobs |-> NoMedia]]

\* Lines 42-43: yt-dlp writes to the fixed name; overwrites is not set, so a
\* file already there is either kept (the download is skipped) or replaced.
JobDownload(j) ==
  /\ call.fn = "jobs" /\ call.pc[j] = "download"
  /\ \E content \in {MediaOf(j)} \cup ({call.file} \ {NoMedia}) :
       call' = [call EXCEPT !.pc[j] = "upload", !.file = content]
  /\ UNCHANGED runvars

\* Line 47: upload_video opens the file of that name and posts what it holds.
JobUpload(j) ==
  /\ call.fn = "jobs" /\ call.pc[j] = "upload"
  /\ call' = IF call.file = NoMedia
             THEN [call EXCEPT !.pc[j] = "failed"]
             ELSE [call EXCEPT !.pc[j] = "exists", !.sent[j] = call.file]
  /\ UNCHANGED runvars

\* Line 50: os.path.exists(local_path).
JobExists(j) ==
  /\ call.fn = "jobs" /\ call.pc[j] = "exists"
  /\ call' = [call EXCEPT !.pc[j] = IF call.file = NoMedia THEN "poll" ELSE "remove"]
  /\ UNCHANGED runvars

\* Line 51: os.remove(local_path) raises when the file is no longer there.
JobRemove(j) ==
  /\ call.fn = "jobs" /\ call.pc[j] = "remove"
  /\ call' = IF call.file = NoMedia
             THEN [call EXCEPT !.pc[j] = "failed"]
             ELSE [call EXCEPT !.pc[j] = "poll", !.file = NoMedia]
  /\ UNCHANGED runvars

\* Lines 53-58: the service processes what was submitted; the node returns.
JobIndexed(j) ==
  /\ call.fn = "jobs" /\ call.pc[j] = "poll"
  /\ call' = [call EXCEPT !.pc[j] = "indexed"]
  /\ UNCHANGED runvars

NextJobs ==
  \/ \E j \in Jobs : JobDownload(j)
  \/ \E j \in Jobs : JobUpload(j)
  \/ \E j \in Jobs : JobExists(j)
  \/ \E j \in Jobs : JobRemove(j)
  \/ \E j \in Jobs : JobIndexed(j)

SpecJobs == InitJobs /\ [][NextJobs]_vars

\* ............................................ the server's job record
\* The requests POST /audit is called with.
AuditRequests ==
  {[video_url |-> Url(<<"https://www.", "youtube.com", "/watch?v=a">>),
    region |-> Str("Global")],
   [video_url |-> Url(<<"https://", "vimeo.com", "/1">>),
    region |-> Str("Europe")]}

\* server.py lines 141-146: the record audit_video saves.
NewRecord(request) ==
  [fn |-> "job", status |-> "PENDING",
   video_url |-> request.video_url, region |-> request.region,
   video_id |-> None, final_status |-> None, final_report |-> None,
   compliance_results |-> List(<<>>), errors |-> List(<<>>)]

\* server.py lines 95-103
ServerInputs(record) ==
  [video_url |-> record.video_url, video_id |-> Str("vid_task"),
   region |-> record.region, detected_brands |-> List(<<>>),
   compliance_results |-> List(<<>>), errors |-> List(<<>>)]

\* CompletedRecord that copies the fields and leaves the status as it is.
CompletedRecord_StatusLater(record, final_state) ==
  [record EXCEPT
     !.video_id = Get(final_state, "video_id", None),
     !.final_status = Get(final_state, "final_status", Str("UNKNOWN")),
     !.final_report = Get(final_state, "final_report", Str("No report Generated")),
     !.compliance_results = Get(final_state, "compliance_results", List(<<>>)),
     !.errors = Get(final_state, "errors", List(<<>>))]

\* server.py lines 110-117: invoke() returned final_state.
CompletedRecord(record, final_state) ==
  [record EXCEPT
     !.status = "COMPLETED",
     !.video_id = Get(final_state, "video_id", None),
     !.final_status = Get(final_state, "final_status", Str("UNKNOWN")),
     !.final_report = Get(final_state, "final_report", Str("No report Generated")),
     !.compliance_results = Get(final_state, "compliance_results", List(<<>>)),
     !.errors = Get(final_state, "errors", List(<<>>))]

\* FailedRecord that also writes a FAIL verdict.
FailedRecord_WithVerdict(record, msg) ==
  [record EXCEPT !.status = "FAILED", !.errors = List(<<Str(msg)>>),
                 !.final_status = Str("FAIL")]

\* server.py lines 120-126: invoke() raised.
FailedRecord(record, msg) ==
  [record EXCEPT !.status = "FAILED", !.errors = List(<<Str(msg)>>)]

\* audit_video has saved the record and queued the background task.
InitRecord ==
  /\ NoRun
  /\ \E request \in AuditRequests : call = NewRecord(request)

\* run_audit_background, lines 88-106: PROCESSING, then invoke() is entered.
JobStart ==
  /\ call.fn = "job" /\ call.status = "PENDING"
  /\ call' = [call EXCEPT !.status = "PROCESSING"]
  /\ state' = ServerInputs(call)
  /\ node' = EntryPoint
  /\ ipc' = "validate"
  /\ log' = <<"enter indexer">>
  /\ UNCHANGED <<last_update, last_response, file_exists, raw_insights, escaped>>

\* run_audit_background, lines 108-126: invoke() has returned or raised.
JobEnd ==
  /\ call.fn = "job" /\ call.status = "PROCESSING"
  /\ node \in {END, RAISED}
  /\ call' = IF node = END THEN CompletedRecord(call, state)
             ELSE FailedRecord(call, escaped)
  /\ UNCHANGED runvars

NextRecord ==
  \/ JobStart
  \/ Next
  \/ JobEnd

SpecRecord == InitRecord /\ [][NextRecord]_vars

\* The background task is a thread of its own: once invoke() has returned or
\* raised, the lines after it run.
SpecRecordFair == SpecRecord /\ WF_vars(JobEnd)

\* ............................... extract_data on top-level and per-video blocks
\* Largest number of entries of the "videos" list.
MaxVideos == 2

\* The items of one kind in one insights block; "" is an item without text.
BlockLines ==
  {<<>>, <<"A">>, <<"B">>, <<"">>, <<"A", "B">>, <<"B", "A">>, <<"A", "A">>,
   <<"", "C">>}

\* A raw result with the given top-level items and per-video items.
RawMerged(top, vids) ==
  [id |-> "vi-8", duration |-> "0:30", insights_null |-> FALSE,
   insights |-> Block(top, top, top),
   videos |-> [i \in 1..Len(vids) |-> Block(vids[i], vids[i], vids[i])]]

InitMerge ==
  /\ NoRun
  /\ \E top \in BlockLines, vids \in SeqsUpTo(BlockLines, MaxVideos) :
       call = [fn |-> "extract_merge", top |-> top, vids |-> vids,
               done |-> FALSE, result |-> EmptyDict]

MergeCall ==
  /\ call.fn = "extract_merge" /\ ~call.done
  /\ call' = [call EXCEPT
       !.done = TRUE,
       !.result = extract_data(RawMerged(call.top, call.vids))]
  /\ UNCHANGED runvars

SpecMerge == InitMerge /\ [][MergeCall]_vars

\* ................................................. the chat endpoint
TaskIds == {"t1", "t2", "t3"}

\* What the table holds for a task id: no row, or a row with this status.
NoRecord == "none"
RecordStatuses == {"PENDING", "PROCESSING", "COMPLETED", "FAILED"}

\* server.py lines 225-263, the body of the try: an HTTPException is raised,
\* llm.invoke raises, or the answer is returned.  str is the exception's str()
\* where it does not depend on the library version.
ChatTry(record, llm) ==
  IF record = NoRecord
  THEN [kind |-> "raise", http |-> TRUE, code |-> 404,
        text |-> "Task not found", events |-> <<>>]
  ELSE IF record # "COMPLETED"
  THEN [kind |-> "raise", http |-> TRUE, code |-> 400,
        text |-> "Audit not completed yet.", events |-> <<>>]
  ELSE IF llm = "raise"
  THEN [kind |-> "raise", http |-> FALSE, code |-> 0,
        text |-> "generation failed", events |-> <<"generate">>]
  ELSE [kind |-> "return", http |-> FALSE, code |-> 200,
        text |-> "answer", events |-> <<"generate">>]

\* str(e) of an HTTPException: "<code>: <detail>" where the library defines
\* __str__, the empty string where it does not.
HttpStr(code, text, rendering) ==
  IF rendering = "plain" THEN ""
  ELSE (IF code = 404 THEN "404: " ELSE "400: ") \o text

\* server.py lines 219-271: what the caller of POST /chat receives.  The
\* handler of line 265 catches every Exception, HTTPException included, and
\* raises HTTPException(500, str(e)).
chat_with_guardian(record, llm, rendering) ==
  LET r == ChatTry(record, llm) IN
  IF r.kind = "return"
  THEN [code |-> 200, detail |-> r.text, events |-> r.events]
  ELSE [code |-> 500,
        detail |-> IF r.http THEN HttpStr(r.code, r.text, rendering) ELSE r.text,
        events |-> r.events]

NoAnswer == [code |-> 0, detail |-> "", events |-> <<>>]

InitChat ==
  /\ NoRun
  /\ \E table \in [TaskIds -> RecordStatuses \cup {NoRecord}], id \in TaskIds :
       call = [fn |-> "chat", table |-> table, task_id |-> id,
               done |-> FALSE, answer |-> NoAnswer]

ChatCall ==
  /\ call.fn = "chat" /\ ~call.done
  /\ \E llm \in {"ok", "raise"}, rendering \in {"coded", "plain"} :
       call' = [call EXCEPT
         !.done = TRUE,
         !.answer = chat_with_guardian(call.table[call.task_id], llm, rendering)]
  /\ UNCHANGED runvars

SpecChat == InitChat /\ [][ChatCall]_vars

\* ---- C11
\* A response holds a fenced block when it has an opening and a closing fence.
C11_Fenced(text) == Cardinality(FencePositions(text)) >= 2

\* The interior of the first fenced block: what stands between the first fence
\* and the next one, a language tag right after the opening fence left out.
C11_Interior(text) ==
  LET fs == FencePositions(text)
      first == CHOOSE i \in fs : \A j \in fs : i <= j
      second == CHOOSE j \in fs \ {first} : \A l \in fs \ {first} : j <= l
      inner == SubSeq(text, first + 1, second - 1)
  IN IF inner # <<>> /\ Head(inner).tok = Tag THEN Tail(inner) ELSE inner

C11_Parsed(text) ==
  IF C11_Fenced(text) THEN Strip(C11_Interior(text)) ELSE Strip(text)

C11_Example == Text(<<Fence, Tag, "objPass", Fence>>)

\* C11: the Audit stage parses the trimmed interior of the first fenced block
\* of the response (with or without the json tag), and the whole trimmed
\* response when there is no fenced block: the update is the verdict of that
\* text when it is a JSON object and carries an error otherwise.  A json-tagged
\* fence around the PASS document yields PASS, no findings and report "ok".
C11_FencedExtraction ==
  (call.fn = "audit" /\ call.done) =>
    LET p == Loads(C11_Parsed(call.arg))
        u == call.result.update
    IN /\ call.result.kind = "return"
       /\ IF p.ok /\ p.value.t = "dict"
          THEN u = VerdictUpdate(p.value.v)
          ELSE "errors" \in DOMAIN u
       /\ call.arg = C11_Example =>
            /\ u["final_status"] = Str("PASS")
            /\ u["compliance_results"] = List(<<>>)
            /\ u["final_report"] = Str("ok")

C11_Witness ==
  /\ call.fn = "audit" /\ call.done
  /\ call.arg = C11_Example
  /\ call.result.update["final_status"] = Str("PASS")
\* ---- C12
\* The reference of the run is of no recognized kind: it is missing or names
\* neither hosting domain.
C12_Unrecognized ==
  \/ "video_url" \notin DOMAIN state
  \/ \A i \in 1..Len(state["video_url"].v) :
       state["video_url"].v[i] \notin {"youtube.com", "youtu.be"}

\* The indexer has returned and the driver stands at the auditor.
C12_IndexingReturned == node = "auditor" /\ ipc = "off"

\* C12: on a run whose reference is of no recognized kind no download, upload
\* or status check is ever made, and the update Indexing returns has a
\* non-empty errors and final_status FAIL.
C12_UnsupportedReference ==
  (node # "off" /\ C12_Unrecognized) =>
    /\ Count("download") = 0 /\ Count("upload") = 0 /\ Count("check") = 0
    /\ C12_IndexingReturned =>
         /\ "errors" \in DOMAIN last_update
         /\ last_update["errors"].t = "list"
         /\ last_update["errors"].v # <<>>
         /\ Get(last_update, "final_status", None) = Str("FAIL")

C12_Witness ==
  /\ C12_IndexingReturned
  /\ "video_url" \in DOMAIN state /\ state["video_url"].v # <<>>
  /\ C12_Unrecognized
  /\ last_update["errors"] = List(<<Str(UnsupportedMessage)>>)
\* ---- C13
\* This step ends Indexing other than by the return of line 58.
C13_IndexingFails ==
  /\ node = "indexer" /\ node' # "indexer"
  /\ ~(ipc = "extract" /\ ~raw_insights.insights_null)

\* The update is errors = [one message], final_status FAIL, transcript "",
\* ocr_text [], and nothing else.
C13_FailureShape(u) ==
  /\ DOMAIN u = {"errors", "final_status", "transcript", "ocr_text"}
  /\ u["errors"].t = "list" /\ Len(u["errors"].v) = 1
  /\ u["errors"].v[1].t = "str" /\ u["errors"].v[1].v # ""
  /\ u["final_status"] = Str("FAIL")
  /\ u["transcript"] = Str("")
  /\ u["ocr_text"] = List(<<>>)

\* C13: whichever step of Indexing fails, the update it returns is exactly
\* errors = [the message], final_status FAIL, transcript "" and ocr_text [];
\* a failure of the polling step carries the message of the outcome that
\* raised, and the Failed and the Quarantined message differ.
C13_IndexingFailureUpdate ==
  [][C13_IndexingFails =>
       /\ C13_FailureShape(last_update')
       /\ ipc = "poll" =>
            \E out \in CheckOutcomes :
              /\ PollTurn(out).kind = "raise"
              /\ last_update'["errors"].v[1] = Str(PollTurn(out).msg)
       /\ PollTurn("Failed").kind = "raise"
       /\ PollTurn("Quarantined").kind = "raise"
       /\ PollTurn("Failed").msg # PollTurn("Quarantined").msg]_vars

C13_Witness ==
  /\ node = "auditor" /\ Count("check") = 2
  /\ last_update["errors"] = List(<<Str(QuarantinedMessage)>>)
  /\ C13_FailureShape(last_update)
\* ---- C14
\* The outcomes of the checks made so far.
SeenOuts == [i \in 1..Len(call.seen) |-> call.seen[i].out]

\* Statuses the service reports that do not end the analysis.
NonTerminalStatuses == {"Processing", "no_state"}

\* n non-terminal statuses, then Processed.
C14_SuccessPath(outs) ==
  /\ outs # <<>>
  /\ outs[Len(outs)] = "Processed"
  /\ \A i \in 1..(Len(outs) - 1) : outs[i] \in NonTerminalStatuses

\* check, wait, check, ..., wait, check: k checks with a wait between each two.
C14_Interleaved(k) ==
  [i \in 1..(2 * k - 1) |-> IF i % 2 = 1 THEN "check" ELSE "wait"]

\* C14: when the service has reported n non-terminal statuses and then
\* Processed, wait_for_processing has returned the JSON of the Processed
\* check after n+1 checks and n waits, one wait between each two checks and
\* none after the last ([Processing, Processing, Processed]: 3 checks, 2 waits).
C14_PollerSuccessPath ==
  (call.fn = "wait_for_processing" /\ C14_SuccessPath(SeenOuts)) =>
    /\ call.pc = "returned"
    /\ call.result = call.seen[Len(call.seen)].data
    /\ call.events = C14_Interleaved(Len(call.seen))
    /\ SeenOuts = <<"Processing", "Processing", "Processed">> =>
         /\ Len(SelectSeq(call.events, LAMBDA e : e = "check")) = 3
         /\ Len(SelectSeq(call.events, LAMBDA e : e = "wait")) = 2

C14_Witness ==
  /\ call.fn = "wait_for_processing"
  /\ SeenOuts = <<"Processing", "Processing", "Processed">>
  /\ call.pc = "returned" /\ call.result = RawA
  /\ call.events = <<"check", "wait", "check", "wait", "check">>
\* ---- C15
\* C15: a check that reports Failed or Quarantined is the last thing
\* wait_for_processing does: it has raised, no check and no wait follows that
\* check, the message is the one of that status, the two messages differ, and
\* a result is returned only on Processed.
C15_PollerTerminalFailures ==
  call.fn = "wait_for_processing" =>
    /\ \A i \in 1..Len(SeenOuts) :
         SeenOuts[i] \in {"Failed", "Quarantined"} =>
           /\ i = Len(SeenOuts)
           /\ call.pc = "raised"
           /\ call.events[Len(call.events)] = "check"
           /\ Len(SelectSeq(call.events, LAMBDA e : e = "check")) = i
           /\ call.msg = IF SeenOuts[i] = "Failed" THEN FailedMessage
                         ELSE QuarantinedMessage
    /\ FailedMessage # QuarantinedMessage
    /\ call.pc = "returned" =>
         /\ SeenOuts[Len(SeenOuts)] = "Processed"
         /\ call.result = call.seen[Len(call.seen)].data
    /\ call.pc # "returned" => call.result = NoRaw

C15_Witness ==
  /\ call.fn = "wait_for_processing"
  /\ SeenOuts = <<"Processing", "Quarantined">>
  /\ call.script # <<>>
  /\ call.pc = "raised" /\ call.msg = QuarantinedMessage
  /\ call.events = <<"check", "wait", "check">>

\* ---- C16
\* What a status check comes to when the transport fails: a response whose
\* status code is not 200, a request that raises, a token that is not granted.
TransportErrors == {"non200", "request_error", "token_error"}

\* C16: after a transport error wait_for_processing is still in its loop and
\* has waited for the next check.
C16_TransportErrorsRetried ==
  (call.fn = "wait_for_processing" /\ call.seen # <<>>
     /\ SeenOuts[Len(SeenOuts)] \in TransportErrors) =>
    /\ call.pc = "loop"
    /\ call.events # <<>>
    /\ call.events[Len(call.events)] = "wait"
\* ---- C17
\* What ends the loop: a terminal state read by a check, or a check raising.
C17_Ending == TerminalStates \cup {"request_error", "token_error"}

\* The service answers this check with a state that is not terminal, or with
\* a status code that is not 200.
C17_NothingTerminal ==
  \/ call.link = "ok" /\ call.status \notin TerminalStates
  \/ call.link = "non200"

\* C17: wait_for_processing bounds the number of checks by nothing (a turn
\* can be taken whenever it is in its loop); a turn ends it if and only if the
\* check yields a terminal state or raises; while the service forever answers
\* with a non-terminal state or a non-200 response it never ends; and once the
\* service answers checks with a terminal state for good, it ends.
C17_PollerTermination ==
  /\ [](call.pc = "loop" => ENABLED LiveStep)
  /\ [][LiveStep => (call'.pc # "loop" <=> call'.last \in C17_Ending)]_vars
  /\ [][call.pc # call'.pc => LiveStep]_vars
  /\ ([]C17_NothingTerminal => [](call.pc = "loop"))
  /\ (<>[](call.link = "ok" /\ call.status \in TerminalStates)
        => <>(call.pc # "loop"))

C17_Witness ==
  /\ call.fn = "poller"
  /\ call.waited /\ call.pc = "returned" /\ call.last = "Processed"
\* ---- C18
\* The texts of a returned list.
C18_Texts(l) == [i \in 1..Len(l.v) |-> l.v[i].v]

\* r holds each text of h once, in the order of the first occurrences in h.
C18_FirstOccurrences(r, h) ==
  /\ \A i, j \in 1..Len(r) : i # j => r[i] # r[j]
  /\ {r[i] : i \in 1..Len(r)} = {h[i] : i \in 1..Len(h)}
  /\ \A i, j \in 1..Len(r) :
       i < j =>
         \E m \in 1..Len(h) :
           /\ h[m] = r[i]
           /\ \A n \in 1..Len(h) : h[n] = r[j] => m < n

\* C18: the ocr and brand lists extract_data returns hold each harvested text
\* once, in first-occurrence order, texts differing in case being different;
\* the transcript is the deduplicated lines joined by single spaces; the
\* lines A, B, A, C, B give A, B, C.
C18_ExtractorDedup ==
  (call.fn = "extract_data" /\ call.done) =>
    LET h == SelectSeq(call.lines, LAMBDA x : x # "")
        ocr == C18_Texts(call.result["ocr_text"])
        brands == C18_Texts(call.result["detected_brands"])
    IN /\ C18_FirstOccurrences(ocr, h)
       /\ C18_FirstOccurrences(brands, h)
       /\ call.result["transcript"] = Str(JoinSp(ocr))
       /\ ("A" \in {h[i] : i \in 1..Len(h)} /\ "a" \in {h[i] : i \in 1..Len(h)})
            => Len(SelectSeq(ocr, LAMBDA x : x \in {"A", "a"})) = 2
       /\ call.lines = <<"A", "B", "A", "C", "B">> =>
            /\ ocr = <<"A", "B", "C">>
            /\ brands = <<"A", "B", "C">>
            /\ call.result["transcript"] = Str("A B C")

C18_Witness ==
  /\ call.fn = "extract_data" /\ call.done
  /\ call.lines = <<"A", "B", "A", "C", "B">>
  /\ call.result["ocr_text"] = StrList(<<"A", "B", "C">>)
\* ---- C20
\* C20: once Indexing has returned, the local copy it downloaded is gone.
C20_LocalMediaReleased ==
  (node \in {"auditor", END, RAISED} /\ Count("download") > 0) => ~file_exists
\* ---- C19
\* C19: with the services answering well, every job running beside others
\* submits its own video and its Indexing does not fail, as when it runs alone.
C19_JobIndependence ==
  call.fn = "jobs" =>
    \A j \in Jobs :
      /\ call.sent[j] \in {NoMedia, MediaOf(j)}
      /\ call.pc[j] # "failed"
\* ---- C21
\* C21: once the upload has returned, Indexing goes on to poll the analysis
\* job, whether or not the local copy could be deleted.
C21_BestEffortCleanup ==
  [][(node = "indexer" /\ ipc = "cleanup") => (node' = "indexer" /\ ipc' = "poll")]_vars
\* ---- C22
C22_Copied == {"final_status", "final_report", "compliance_results", "errors"}

\* C22: a job whose invoke() raised ends FAILED with the exception message as
\* its only error and no final_status written; a job whose invoke() returned
\* ends COMPLETED with final_status, final_report, findings and errors of the
\* final state copied to the record.
C22_JobLevelFailure ==
  call.fn = "job" =>
    /\ call.status = "FAILED" =>
         /\ node = RAISED
         /\ call.errors = List(<<Str(escaped)>>)
         /\ call.final_status = None /\ call.final_report = None
    /\ call.status = "COMPLETED" =>
         /\ node = END
         /\ \A k \in C22_Copied \cap DOMAIN state : call[k] = state[k]
    /\ call.status \in {"PENDING", "PROCESSING", "COMPLETED", "FAILED"}

C22_Witness ==
  /\ call.fn = "job" /\ call.status = "FAILED"
  /\ node = RAISED /\ escaped # ""
  /\ call.errors = List(<<Str(escaped)>>)
\* ---- C23
\* The input the run was started with (no stage writes video_id).
InputOf(s) == CHOOSE i \in InitialInputs : i["video_id"] = s["video_id"]

\* C23: a run that started without errors and is at END with a non-empty
\* errors has final_status FAIL; so a final PASS has no errors.
C23_FaultsImplyFail ==
  (node = END /\ InputOf(state)["errors"] = List(<<>>)) =>
    /\ state["errors"].v # <<>> => FinalStatus = Str("FAIL")
    /\ FinalStatus = Str("PASS") => state["errors"] = List(<<>>)

C23_Witness ==
  /\ node = END /\ InputOf(state)["errors"] = List(<<>>)
  /\ last_response.got
  /\ state["errors"].v # <<>> /\ FinalStatus = Str("FAIL")

\* ---- C24
\* C24: until the update of the Audit stage is merged, final_status is unset.
C24_UnsetUntilAudit ==
  node \in {"indexer", "auditor"} => "final_status" \notin DOMAIN state
\* ---- C25
\* The auditor is about to run on the update of a failed Indexing.
C25_AfterFailedIndexing ==
  /\ node = "auditor"
  /\ "errors" \in DOMAIN last_update

\* C25: when Indexing has failed the auditor is entered all the same, and its
\* step makes no search and no generative call and ends the run with
\* final_status FAIL, the fixed no-content report, the errors of the input
\* followed by the one Indexing message, and the findings of the input.
C25_IndexingFailureThenAudit ==
  [][/\ (node = "indexer" /\ node' # "indexer" /\ "errors" \in DOMAIN last_update')
          => C25_AfterFailedIndexing'
     /\ C25_AfterFailedIndexing =>
          /\ node' = END
          /\ log' = Append(log, "return auditor")
          /\ state'["final_status"] = Str("FAIL")
          /\ state'["final_report"] = Str(NoContentReport)
          /\ state'["errors"] =
               List(InputOf(state)["errors"].v \o last_update["errors"].v)
          /\ Len(last_update["errors"].v) = 1
          /\ state'["compliance_results"] = InputOf(state)["compliance_results"]]_vars

C25_Witness ==
  /\ node = END
  /\ log = <<"enter indexer", "download", "upload", "remove", "check",
             "return indexer", "enter auditor", "return auditor">>
  /\ state["errors"] = List(<<Str(FailedMessage)>>)
  /\ state["final_report"] = Str(NoContentReport)
  /\ FinalStatus = Str("FAIL")
\* ---- C26
C26_AuditKeys == {"compliance_results", "final_status", "final_report", "errors"}
C26_ContentKeys == {"transcript", "ocr_text", "detected_brands", "video_metadata"}
C26_InputKeys == {"video_url", "video_id", "region"}

\* Key k is the same, present or absent, before and after the step.
C26_Kept(k) ==
  /\ k \in DOMAIN state <=> k \in DOMAIN state'
  /\ k \in DOMAIN state => state'[k] = state[k]

\* C26: the update of the Audit stage has keys only among compliance_results,
\* final_status, final_report and errors, so its step keeps transcript,
\* ocr_text, detected_brands and video_metadata as Indexing left them; and no
\* step of the run changes video_url, video_id or region.
C26_AuditAndInputFrame ==
  [][/\ (node = "auditor" /\ node' = END) =>
          /\ DOMAIN last_update' \subseteq C26_AuditKeys
          /\ \A k \in C26_ContentKeys : C26_Kept(k)
     /\ (node = "auditor" /\ node' = RAISED) => state' = state
     /\ \A k \in C26_InputKeys : C26_Kept(k)]_vars

C26_Witness ==
  /\ node = END
  /\ state["transcript"] = Str("A B C")
  /\ "errors" \in DOMAIN last_update
  /\ ~last_response.got
  /\ Count("generate") = 1
  /\ "region" \in DOMAIN state
\* ---- C27
\* This step is the return of line 58: Indexing succeeds.
C27_IndexingSucceeds ==
  /\ node = "indexer" /\ ipc = "extract"
  /\ ~raw_insights.insights_null

\* C27: the update of a successful Indexing has exactly the keys transcript,
\* ocr_text, detected_brands and video_metadata; the state takes their values
\* in place of its own, and final_status, final_report, errors and
\* compliance_results are as before.
C27_SuccessfulIndexingFrame ==
  [][C27_IndexingSucceeds =>
       /\ DOMAIN last_update' = C26_ContentKeys
       /\ \A k \in C26_ContentKeys : state'[k] = last_update'[k]
       /\ \A k \in C26_AuditKeys : C26_Kept(k)
       /\ node' = "auditor"]_vars

C27_Witness ==
  /\ node = "auditor"
  /\ DOMAIN last_update = C26_ContentKeys
  /\ state["detected_brands"] = StrList(<<"Acme", "Rival">>)
  /\ state["errors"] = List(<<Str("earlier error")>>)
  /\ "final_status" \notin DOMAIN state
\* ---- C28
\* The upload has returned and the cleanup of lines 50-51 is behind.
C28_PastCleanup ==
  \E i \in 1..(Len(log) - 1) : log[i] = "upload" /\ log[i + 1] # "return indexer"

C29_NonTerminalTransient ==
  call.fn = "wait_for_processing" =>
    /\ (call.seen # <<>>
          /\ SeenOuts[Len(SeenOuts)] \in NonTerminalStatuses \cup {"non200"}) =>
         /\ call.pc = "loop"
         /\ Len(call.events) = 2 * Len(call.seen)
         /\ SubSeq(call.events, Len(call.events) - 1, Len(call.events))
              = <<"check", "wait">>
    /\ \A p \in 1..Len(call.events) :
         /\ (call.events[p] = "check" /\ p > 1) =>
              /\ call.events[p - 1] = "wait"
              /\ call.events[p - 2] = "check"
         /\ call.events[p] = "wait" => (p > 1 /\ call.events[p - 1] = "check")

C29_Witness ==
  /\ call.fn = "wait_for_processing"
  /\ SeenOuts = <<"no_state", "non200", "Processing">>
  /\ call.pc = "loop"
  /\ call.events = <<"check", "wait", "check", "wait", "check", "wait">>
\* ---- C30
\* The items of all blocks in a row.
RECURSIVE C30_Concat(_)
C30_Concat(blocks) ==
  IF blocks = <<>> THEN <<>> ELSE Head(blocks) \o C30_Concat(Tail(blocks))

C30_WithText(lines) == SelectSeq(lines, LAMBDA x : x # "")

\* C30: each list extract_data returns holds, once each and in the order of
\* their first occurrence, the items with text of the top-level block followed
\* by those of each per-video block in order; it begins with the distinct
\* top-level items, so an item found at both levels stands at its top-level
\* place; with no per-video block the top-level items are returned all the same.
C30_ExtractorMerge ==
  (call.fn = "extract_merge" /\ call.done) =>
    LET topItems == C30_WithText(call.top)
        merged == C30_WithText(call.top \o C30_Concat(call.vids))
        nTop == Cardinality({topItems[i] : i \in 1..Len(topItems)})
    IN /\ DOMAIN call.result =
            {"transcript", "ocr_text", "detected_brands", "video_metadata"}
       /\ \A k \in {"ocr_text", "detected_brands"} :
            LET r == C18_Texts(call.result[k]) IN
            /\ C18_FirstOccurrences(r, merged)
            /\ Len(r) >= nTop
            /\ C18_FirstOccurrences(SubSeq(r, 1, nTop), topItems)
            /\ call.vids = <<>> => C18_FirstOccurrences(r, topItems)
       /\ call.result["transcript"] =
            Str(JoinSp(C18_Texts(call.result["ocr_text"])))

C30_Witness ==
  /\ call.fn = "extract_merge" /\ call.done
  /\ call.top = <<"B", "A">>
  /\ call.vids = <<<<"A", "B">>, <<"", "C">>>>
  /\ call.result["ocr_text"] = StrList(<<"B", "A", "C">>)
  /\ call.result["transcript"] = Str("B A C")
\* ---- C31
C31_Moves ==
  {<<"PENDING", "PROCESSING">>, <<"PROCESSING", "COMPLETED">>,
   <<"PROCESSING", "FAILED">>}

C31_Terminal == {"COMPLETED", "FAILED"}

\* The record shows no verdict.
C31_NoVerdict(record) ==
  /\ record.final_status = None
  /\ record.final_report = None
  /\ record.compliance_results = List(<<>>)

\* C31: the status of a job record moves only PENDING to PROCESSING to
\* COMPLETED or FAILED; a COMPLETED or FAILED record is never written again;
\* final_status, final_report and findings change only in the step that sets
\* COMPLETED, so a PENDING or PROCESSING record shows no verdict; and once
\* invoke() has returned the record becomes COMPLETED, once it has raised,
\* FAILED.
C31_RecordLifecycle ==
  /\ [](call.status \in {"PENDING", "PROCESSING"} => C31_NoVerdict(call))
  /\ [][/\ call'.status # call.status => <<call.status, call'.status>> \in C31_Moves
        /\ call.status \in C31_Terminal => call' = call
        /\ (\E k \in {"final_status", "final_report", "compliance_results"} :
              call'[k] # call[k])
             => (call.status = "PROCESSING" /\ call'.status = "COMPLETED")]_vars
  /\ (node = END ~> call.status = "COMPLETED")
  /\ (node = RAISED ~> call.status = "FAILED")
  /\ [](call.status = "COMPLETED" => node = END)
  /\ [](call.status = "FAILED" => node = RAISED)

C31_Witness ==
  /\ call.fn = "job" /\ call.status = "COMPLETED"
  /\ node = END
  /\ call.final_status = Str("PASS")
  /\ call.final_report = Str("ok")
\* ---- C32
\* C32: a chat request for a task id without a record is answered 404 "Task
\* not found", one for a record that is not COMPLETED 400 "Audit not completed
\* yet."; in both cases no generative call is made.
C32_ChatPreconditionErrors ==
  (call.fn = "chat" /\ call.done) =>
    LET record == call.table[call.task_id] IN
    /\ record = NoRecord =>
         /\ call.answer.code = 404
         /\ call.answer.detail = "Task not found"
         /\ call.answer.events = <<>>
    /\ record \in RecordStatuses \ {"COMPLETED"} =>
         /\ call.answer.code = 400
         /\ call.answer.detail = "Audit not completed yet."
         /\ call.answer.events = <<>>
====
